---- MODULE Spec2Model ----
(***************************************************************************)
(* A model of the weighted-graph library src/fm/d1/graphs/library.py:      *)
(* the adjacency-matrix Graph with its mutations and structural queries,   *)
(* kruskal() and dijkstra().                                               *)
(*                                                                         *)
(* A vertex is modelled by its name (Vertex.__eq__ compares names); where  *)
(* the code compares objects with "is" (dijkstra), a Vertex object is a    *)
(* name together with an identity.                                         *)
(* A graph is a pair (vertices, matrix): a sequence of names and a         *)
(* sequence of rows.  The empty graph has matrix <<<<>>>> ([[]]).           *)
(***************************************************************************)
EXTENDS Integers, Sequences, FiniteSets, TLC

VARIABLES
    vertices,   \* Graph.vertices of the graph under mutation / the input graph
    matrix,     \* Graph.matrix of that graph
    last,       \* the last call made on the graph and how it ended
    kr,         \* the state of a running kruskal() call
    dj          \* the state of a running dijkstra() call

vars == <<vertices, matrix, last, kr, dj>>

-----------------------------------------------------------------------------
(* Bounds of the model *)

\* The mutation machine draws vertex names from the first MaxVertices names.
MaxVertices == 2

\* The mutation machine keeps at most MaxEdgeCells nonzero cells in the matrix.
MaxEdgeCells == 3

NameSeq == <<"A", "B", "C", "D", "E", "F", "G">>

Names == {NameSeq[i] : i \in 1..MaxVertices}

\* The weights the mutation machine passes: none (0, what remove_edge writes),
\* the default weight of add_edge, and one other weight.
Weights == {0, 1, 2}

-----------------------------------------------------------------------------
(* Sequence helpers *)

Range(s) == {s[i] : i \in 1..Len(s)}

\* list.index(x): the first position holding x (x is known to be in s)
IndexOf(s, x) == CHOOSE i \in 1..Len(s) : s[i] = x /\ \A j \in 1..(i - 1) : s[j] # x

-----------------------------------------------------------------------------
(* Graph.__init__ *)

EmptyMatrix == <<<<>>>>

-----------------------------------------------------------------------------
(* Graph.add_vertex: the matrix after a successful call *)

GrowMatrixKeepsShape(m) ==
    IF m = EmptyMatrix
    THEN <<<<0>>>>
    ELSE Append([i \in 1..Len(m) |-> Append(m[i], 0)], [j \in 1..Len(m[1]) |-> 0])

GrowMatrix(m) ==
    IF m = EmptyMatrix
    THEN <<<<0>>>>
    ELSE LET widened == [i \in 1..Len(m) |-> Append(m[i], 0)]
         IN  Append(widened, [j \in 1..Len(widened[1]) |-> 0])

\* "vertex in self.vertices"
AlreadyAddedNever(vs, v) == FALSE

AlreadyAdded(vs, v) == v \in Range(vs)

-----------------------------------------------------------------------------
(* Graph._set_edge: the matrix after a successful call *)

SetEdgeAlwaysBoth(vs, m, v, u, weight, directed) ==
    LET vi == IndexOf(vs, v)
        ui == IndexOf(vs, u)
    IN  [i \in 1..Len(m) |->
            [j \in 1..Len(m[i]) |->
                IF (i = vi /\ j = ui) \/ (i = ui /\ j = vi) THEN weight ELSE m[i][j]]]

SetEdgeOneCell(vs, m, v, u, weight, directed) ==
    [m EXCEPT ![IndexOf(vs, v)][IndexOf(vs, u)] = weight]

SetEdge(vs, m, v, u, weight, directed) ==
    LET vi == IndexOf(vs, v)
        ui == IndexOf(vs, u)
        m1 == [m EXCEPT ![vi][ui] = weight]
    IN  IF ~directed THEN [m1 EXCEPT ![ui][vi] = weight] ELSE m1

\* the check at the head of _set_edge: "for x in (v, u): if x not in self.vertices"
EndpointMissing(vs, v, u) == v \notin Range(vs) \/ u \notin Range(vs)

-----------------------------------------------------------------------------
(* Graph.get_connected_vertices: the neighbours of vertex in vertex-list      *)
(* order; avoid is the set of names in the avoid list ("in" compares names)   *)

Indices(n) == [i \in 1..n |-> i]

GetConnectedVerticesNoAvoid(vs, m, vertex, avoid) ==
    LET vi == IndexOf(vs, vertex)
        Keep(i) == m[vi][i] # 0
        kept == SelectSeq(Indices(Len(m[vi])), Keep)
    IN  [k \in 1..Len(kept) |-> vs[kept[k]]]

GetConnectedVerticesAlwaysAvoids(vs, m, vertex, avoid) ==
    LET vi == IndexOf(vs, vertex)
        Keep(i) == m[vi][i] # 0 /\ vs[i] \notin avoid
        kept == SelectSeq(Indices(Len(m[vi])), Keep)
    IN  [k \in 1..Len(kept) |-> vs[kept[k]]]

GetConnectedVertices(vs, m, vertex, avoid) ==
    LET vi == IndexOf(vs, vertex)
        Keep(i) == m[vi][i] # 0 /\ (vs[i] \notin avoid \/ m[i][vi] # m[vi][i])
        kept == SelectSeq(Indices(Len(m[vi])), Keep)
    IN  [k \in 1..Len(kept) |-> vs[kept[k]]]

-----------------------------------------------------------------------------
(* Graph._is_connected and Graph.is_connected.                               *)
(* The result is "true", "false" or "RecursionError".  _is_connected(vertex, *)
(* visited) depends only on vertex and the set of visited names, and the set *)
(* never shrinks along a chain of calls; so the recursion is infinite (and   *)
(* Python raises RecursionError) exactly when a chain reaches a call whose   *)
(* vertex and visited set equal those of an earlier call of the chain.       *)

RepeatsACall(vertex, visited) ==
    \E k \in 1..Len(visited) :
        /\ visited[k] = vertex
        /\ Range(SubSeq(visited, 1, k - 1)) = Range(visited)

RECURSIVE IsConnectedFrom(_, _, _, _)
IsConnectedFrom(vs, m, vertex, visited) ==
    IF Range(visited) \cup {vertex} = Range(vs) THEN "true"
    ELSE IF RepeatsACall(vertex, visited) THEN "RecursionError"
    ELSE LET nbrs == GetConnectedVertices(vs, m, vertex, Range(visited))
             results == {IsConnectedFrom(vs, m, nbrs[k], Append(visited, vertex)) :
                            k \in 1..Len(nbrs)}
         IN  IF "RecursionError" \in results THEN "RecursionError"
             ELSE IF "true" \in results THEN "true"
             ELSE "false"

\* the loop of is_connected over the start vertices, from the k-th on
RECURSIVE IsConnectedLoop(_, _, _)
IsConnectedLoop(vs, m, k) ==
    IF k > Len(vs) THEN "false"
    ELSE LET r == IsConnectedFrom(vs, m, vs[k], <<>>)
         IN  IF r = "false" THEN IsConnectedLoop(vs, m, k + 1) ELSE r

IsConnected(vs, m) == IsConnectedLoop(vs, m, 1)

-----------------------------------------------------------------------------
(* Graph._has_cycles and Graph.has_cycles *)

\* visited[:-1]
AllButLast(s) == IF Len(s) = 0 THEN <<>> ELSE SubSeq(s, 1, Len(s) - 1)

\* [visited[-1]] if visited != [] else []
JustLeft(s) == IF Len(s) = 0 THEN {} ELSE {s[Len(s)]}

RECURSIVE HasCyclesFromAnyRevisit(_, _, _, _)
HasCyclesFromAnyRevisit(vs, m, vertex, visited) ==
    IF vertex \in Range(visited) THEN TRUE
    ELSE LET nbrs == GetConnectedVertices(vs, m, vertex, {})
         IN  \E k \in 1..Len(nbrs) :
                HasCyclesFromAnyRevisit(vs, m, nbrs[k], Append(visited, vertex))

RECURSIVE HasCyclesFrom(_, _, _, _)
HasCyclesFrom(vs, m, vertex, visited) ==
    IF vertex \in Range(AllButLast(visited)) THEN TRUE
    ELSE LET nbrs == GetConnectedVertices(vs, m, vertex, JustLeft(visited))
         IN  \E k \in 1..Len(nbrs) :
                HasCyclesFrom(vs, m, nbrs[k], Append(visited, vertex))

HasCyclesIgnoringLoops(vs, m) ==
    IF Len(vs) = 0 THEN FALSE
    ELSE \E k \in 1..Len(vs) : HasCyclesFrom(vs, m, vs[k], <<>>)

HasCycles(vs, m) ==
    IF Len(vs) = 0 THEN FALSE
    ELSE IF \E i \in 1..Len(vs) : m[i][i] # 0 THEN TRUE
    ELSE \E k \in 1..Len(vs) : HasCyclesFrom(vs, m, vs[k], <<>>)

\* Graph.is_tree
IsTree(vs, m) == ~HasCycles(vs, m)

\* Graph.total_weight
RECURSIVE SumSeq(_)
SumSeq(s) == IF Len(s) = 0 THEN 0 ELSE s[1] + SumSeq(Tail(s))

TotalWeightCountsEdgesOnce(m) ==
    SumSeq([i \in 1..Len(m) |-> SumSeq([j \in 1..Len(m[i]) |-> IF i <= j THEN m[i][j] ELSE 0])])

TotalWeight(m) == SumSeq([i \in 1..Len(m) |-> SumSeq(m[i])])

NumberOfOddNodesCountsCells(m) ==
    SumSeq([i \in 1..Len(m) |-> Len(SelectSeq(m[i], LAMBDA e : e # 0))])

\* Graph.number_of_odd_nodes: sum(len([e for e in row if e != 0]) % 2 for row in matrix)
NumberOfOddNodes(m) ==
    SumSeq([i \in 1..Len(m) |-> Len(SelectSeq(m[i], LAMBDA e : e # 0)) % 2])

\* Graph.is_eulerian
IsEulerian(m) == NumberOfOddNodes(m) = 0

\* Graph.is_semi_eulerian
IsSemiEulerian(m) == NumberOfOddNodes(m) = 2

\* Graph.weight_of_path, the loop over enumerate(path[:-1]) from position i on
RECURSIVE WeightOfPathLoop(_, _, _, _, _)
WeightOfPathLoop(vs, m, path, i, weight) ==
    IF i > Len(path) - 1 THEN [result |-> "ok", weight |-> weight]
    ELSE LET edge == m[IndexOf(vs, path[i])][IndexOf(vs, path[i + 1])]
         IN  IF edge = 0 THEN [result |-> "EdgeDoesntExistError"]
             ELSE WeightOfPathLoop(vs, m, path, i + 1, weight + edge)

WeightOfPathLooksUpFirstPair(vs, m, path) ==
    IF \E k \in 1..Len(path) : k <= 2 /\ path[k] \notin Range(vs)
    THEN [result |-> "VertexDoesntExistError"]
    ELSE IF \E k \in 1..Len(path) : path[k] \notin Range(vs)
         THEN [result |-> "EdgeDoesntExistError"]
         ELSE WeightOfPathLoop(vs, m, path, 1, 0)

\* Graph.weight_of_path: every vertex of the path is looked up first
WeightOfPath(vs, m, path) ==
    IF \E k \in 1..Len(path) : path[k] \notin Range(vs)
    THEN [result |-> "VertexDoesntExistError"]
    ELSE WeightOfPathLoop(vs, m, path, 1, 0)

-----------------------------------------------------------------------------
(* The mutation machine: one action per public mutating method *)

Call(op, v, u, w, d, result) ==
    [op |-> op, v |-> v, u |-> u, w |-> w, d |-> d, result |-> result]

NoRun == [pc |-> "idle"]

Init ==
    /\ vertices = <<>>
    /\ matrix = EmptyMatrix
    /\ last = Call("init", "", "", 0, FALSE, "ok")
    /\ kr = NoRun
    /\ dj = NoRun

AddVertex(v) ==
    /\ IF AlreadyAdded(vertices, v)
       THEN /\ last' = Call("add_vertex", v, "", 0, FALSE, "VertexAlreadyAddedError")
            /\ UNCHANGED <<vertices, matrix>>
       ELSE /\ vertices' = Append(vertices, v)
            /\ matrix' = GrowMatrix(matrix)
            /\ last' = Call("add_vertex", v, "", 0, FALSE, "ok")
    /\ UNCHANGED <<kr, dj>>

SetEdgeCallChecksFirstOnly(op, v, u, weight, directed) ==
    /\ IF v \notin Range(vertices)
       THEN /\ last' = Call(op, v, u, weight, directed, "VertexDoesntExistError")
            /\ UNCHANGED <<vertices, matrix>>
       ELSE IF u \notin Range(vertices)
       THEN /\ last' = Call(op, v, u, weight, directed, "ValueError")
            /\ UNCHANGED <<vertices, matrix>>
       ELSE /\ matrix' = SetEdge(vertices, matrix, v, u, weight, directed)
            /\ last' = Call(op, v, u, weight, directed, "ok")
            /\ UNCHANGED vertices
    /\ UNCHANGED <<kr, dj>>

SetEdgeCall(op, v, u, weight, directed) ==
    /\ IF EndpointMissing(vertices, v, u)
       THEN /\ last' = Call(op, v, u, weight, directed, "VertexDoesntExistError")
            /\ UNCHANGED <<vertices, matrix>>
       ELSE /\ matrix' = SetEdge(vertices, matrix, v, u, weight, directed)
            /\ last' = Call(op, v, u, weight, directed, "ok")
            /\ UNCHANGED vertices
    /\ UNCHANGED <<kr, dj>>

AddEdge(v, u, weight, directed) == SetEdgeCall("add_edge", v, u, weight, directed)

RemoveEdge(v, u, directed) == SetEdgeCall("remove_edge", v, u, 0, directed)

\* Names are compared for equality only, so a vertex that is not in the graph
\* yet is given the first unused name; a vertex that is in it may have any.
FreshNames == LET unused == {i \in 1..MaxVertices : NameSeq[i] \notin Range(vertices)}
              IN  {NameSeq[i] : i \in {j \in unused : \A k \in unused : j <= k}}

\* the bound on the size of the graphs the machine builds
NonzeroCells(m) == Cardinality({p \in (1..Len(m)) \X (1..Len(m)) : m[p[1]][p[2]] # 0})

WithinBounds == Len(vertices) = 0 \/ NonzeroCells(matrix) <= MaxEdgeCells

Next ==
    \/ \E v \in Range(vertices) \cup FreshNames : AddVertex(v)
    \/ \E v \in Names, u \in Names, w \in Weights, d \in BOOLEAN :
            AddEdge(v, u, w, d) /\ WithinBounds'
    \/ \E v \in Names, u \in Names, d \in BOOLEAN : RemoveEdge(v, u, d)

Spec == Init /\ [][Next]_vars

-----------------------------------------------------------------------------
(* The simple-graph machine: add_vertex, and add_edge and remove_edge called  *)
(* undirected between two different vertices only                             *)

\* The simple-graph machine draws vertex names from the first MaxSimpleVertices names.
MaxSimpleVertices == 3

SimpleNames == {NameSeq[i] : i \in 1..MaxSimpleVertices}

\* a vertex that is not in the graph yet is given the first unused name
SimpleFreshNames ==
    LET unused == {i \in 1..MaxSimpleVertices : NameSeq[i] \notin Range(vertices)}
    IN  {NameSeq[i] : i \in {j \in unused : \A k \in unused : j <= k}}

SimpleNext ==
    \/ \E v \in Range(vertices) \cup SimpleFreshNames : AddVertex(v)
    \/ \E v \in SimpleNames, u \in SimpleNames, w \in {1, 2} : v # u /\ AddEdge(v, u, w, FALSE)
    \/ \E v \in SimpleNames, u \in SimpleNames : v # u /\ RemoveEdge(v, u, FALSE)

SpecSimple == Init /\ [][SimpleNext]_vars

-----------------------------------------------------------------------------
(* Graph.add_vertices: add_vertex for each argument in order; the first      *)
(* failure ends the call and keeps what was added before it                  *)

RECURSIVE AddVerticesSkipsPresent(_, _, _)
AddVerticesSkipsPresent(vs, m, args) ==
    IF Len(args) = 0 THEN [vertices |-> vs, matrix |-> m, result |-> "ok"]
    ELSE IF AlreadyAdded(vs, Head(args))
    THEN [AddVerticesSkipsPresent(vs, m, Tail(args)) EXCEPT !.result = "VertexAlreadyAddedError"]
    ELSE AddVerticesSkipsPresent(Append(vs, Head(args)), GrowMatrix(m), Tail(args))

RECURSIVE AddVerticesResult(_, _, _)
AddVerticesResult(vs, m, args) ==
    IF Len(args) = 0 THEN [vertices |-> vs, matrix |-> m, result |-> "ok"]
    ELSE IF AlreadyAdded(vs, Head(args))
    THEN [vertices |-> vs, matrix |-> m, result |-> "VertexAlreadyAddedError"]
    ELSE AddVerticesResult(Append(vs, Head(args)), GrowMatrix(m), Tail(args))

-----------------------------------------------------------------------------
(* kruskal: the edge list *)

RowEdgesRightToLeft(vs, m, i) ==
    LET Keep(j) == m[i][j] # 0
        kept == SelectSeq(Indices(Len(m[i])), Keep)
    IN  [k \in 1..Len(kept) |->
            <<vs[i], vs[kept[Len(kept) + 1 - k]], m[i][kept[Len(kept) + 1 - k]]>>]

\* the nonzero cells of row i, left to right, as (from, to, weight)
RowEdges(vs, m, i) ==
    LET Keep(j) == m[i][j] # 0
        kept == SelectSeq(Indices(Len(m[i])), Keep)
    IN  [k \in 1..Len(kept) |-> <<vs[i], vs[kept[k]], m[i][kept[k]]>>]

\* the nonzero cells of rows i.., in row-major order
RECURSIVE EdgesFromRow(_, _, _)
EdgesFromRow(vs, m, i) ==
    IF i > Len(m) THEN <<>> ELSE RowEdges(vs, m, i) \o EdgesFromRow(vs, m, i + 1)

\* edges.sort(key=lambda t: t[2]): a stable sort by weight
InsertByWeightAtEnd(sorted, e) == Append(sorted, e)

InsertByWeight(sorted, e) ==
    LET before == Cardinality({k \in 1..Len(sorted) : sorted[k][3] <= e[3]})
    IN  SubSeq(sorted, 1, before) \o <<e>> \o SubSeq(sorted, before + 1, Len(sorted))

SortByWeightNot(edges) == edges

RECURSIVE SortByWeight(_)
SortByWeight(edges) ==
    IF Len(edges) = 0 THEN <<>>
    ELSE InsertByWeight(SortByWeight(AllButLast(edges)), edges[Len(edges)])

\* one pass of the loop that builds directed_edges: (from, to, weight, directed)
CoalesceNever(acc, e) == Append(acc, <<e[1], e[2], e[3], TRUE>>)

Coalesce(acc, e) ==
    LET opposite == <<e[2], e[1], e[3], TRUE>>
    IN  IF \E k \in 1..Len(acc) : acc[k] = opposite
        THEN [k \in 1..Len(acc) |->
                IF acc[k] = opposite THEN <<e[2], e[1], e[3], FALSE>> ELSE acc[k]]
        ELSE Append(acc, <<e[1], e[2], e[3], TRUE>>)

RECURSIVE CoalesceAll(_, _)
CoalesceAll(acc, edges) ==
    IF Len(edges) = 0 THEN acc
    ELSE CoalesceAll(Coalesce(acc, Head(edges)), Tail(edges))

DirectedEdgesAllUndirected(vs, m) ==
    LET es == CoalesceAll(<<>>, SortByWeight(EdgesFromRow(vs, m, 1)))
    IN  [k \in 1..Len(es) |-> <<es[k][1], es[k][2], es[k][3], FALSE>>]

DirectedEdges(vs, m) == CoalesceAll(<<>>, SortByWeight(EdgesFromRow(vs, m, 1)))

-----------------------------------------------------------------------------
(* kruskal: one pass of the loop over directed_edges *)

\* the tree after "add_edge; if has_cycles: remove_edge"
TreeAfterEdgeKeepsCycles(vs, tree, e) == SetEdge(vs, tree, e[1], e[2], e[3], e[4])

TreeAfterEdgeNeverAdds(vs, tree, e) == tree

TreeAfterEdgeRemovesBothWays(vs, tree, e) ==
    LET added == SetEdge(vs, tree, e[1], e[2], e[3], e[4])
    IN  IF HasCycles(vs, added) THEN SetEdge(vs, added, e[1], e[2], 0, FALSE) ELSE added

TreeAfterEdge(vs, tree, e) ==
    LET added == SetEdge(vs, tree, e[1], e[2], e[3], e[4])
    IN  IF HasCycles(vs, added) THEN SetEdge(vs, added, e[1], e[2], 0, e[4]) ELSE added

-----------------------------------------------------------------------------
(* The kruskal machine: the input graph is (vertices, matrix); kr holds the   *)
(* position in kruskal(), its directed_edges, its loop index and its tree     *)

\* The input graphs without self-loops have at most MaxKruskalVertices vertices.
MaxKruskalVertices == 4

\* The input graphs have at most MaxKruskalEdges edges between distinct vertices.
MaxKruskalEdges == 5

\* The input graphs with a self-loop have at most MaxLoopVertices vertices.
MaxLoopVertices == 3

\* The weights of the edges of the input graphs.
KruskalWeights == {1, 2}

UnorderedPairs(n) == {p \in (1..n) \X (1..n) : p[1] < p[2]}

\* the symmetric matrix with weight f[<<i, j>>] between i < j and, when loop is
\* not 0, a self-loop of weight 1 on vertex loop
SymmetricMatrix(n, f, loop) ==
    IF n = 0 THEN EmptyMatrix
    ELSE [i \in 1..n |-> [j \in 1..n |->
            IF i < j THEN f[<<i, j>>]
            ELSE IF j < i THEN f[<<j, i>>]
            ELSE IF loop = i THEN 1 ELSE 0]]

\* the input is any undirected graph within the bounds
InitUndirected ==
    /\ \E n \in 0..MaxKruskalVertices :
         /\ vertices = SubSeq(NameSeq, 1, n)
         /\ \E f \in [UnorderedPairs(n) -> KruskalWeights \cup {0}],
               loop \in 0..(IF n <= MaxLoopVertices THEN n ELSE 0) :
                /\ Cardinality({p \in UnorderedPairs(n) : f[p] # 0}) <= MaxKruskalEdges
                /\ matrix = SymmetricMatrix(n, f, loop)
    /\ last = Call("init", "", "", 0, FALSE, "ok")
    /\ kr = NoRun
    /\ dj = NoRun

\* the structural queries, read off the input graph
Query ==
    /\ kr.pc = "idle" /\ last.op = "init"
    /\ last' = [op |-> "query",
                is_connected |-> IsConnected(vertices, matrix),
                has_cycles |-> HasCycles(vertices, matrix)]
    /\ UNCHANGED <<vertices, matrix, kr, dj>>

\* kruskal() up to its loop: directed_edges is built, tree holds the vertices
KruskalCall ==
    /\ kr.pc = "idle" /\ last.op = "init"
    /\ LET tree == AddVerticesResult(<<>>, EmptyMatrix, vertices)
       IN  kr' = IF tree.result = "ok"
                 THEN [pc |-> "loop", edges |-> DirectedEdges(vertices, matrix), i |-> 1,
                       vertices |-> tree.vertices, tree |-> tree.matrix]
                 ELSE [pc |-> "raised", error |-> tree.result]
    /\ UNCHANGED <<vertices, matrix, last, dj>>

\* a pass of the loop in a kruskal() whose tree is the input graph itself
KruskalIterOnInput ==
    /\ kr.pc = "loop" /\ kr.i <= Len(kr.edges)
    /\ LET tree == TreeAfterEdge(kr.vertices, kr.tree, kr.edges[kr.i])
           connected == IsConnected(kr.vertices, tree)
       IN  /\ kr' = IF connected = "RecursionError"
                    THEN [pc |-> "raised", error |-> "RecursionError"]
                    ELSE IF connected = "true"
                    THEN [kr EXCEPT !.pc = "done", !.tree = tree]
                    ELSE [kr EXCEPT !.i = kr.i + 1, !.tree = tree]
           /\ matrix' = tree
    /\ UNCHANGED <<vertices, last, dj>>

\* one pass of "for e in directed_edges"
KruskalIter ==
    /\ kr.pc = "loop" /\ kr.i <= Len(kr.edges)
    /\ LET tree == TreeAfterEdge(kr.vertices, kr.tree, kr.edges[kr.i])
           connected == IsConnected(kr.vertices, tree)
       IN  kr' = IF connected = "RecursionError"
                 THEN [pc |-> "raised", error |-> "RecursionError"]
                 ELSE IF connected = "true"
                 THEN [kr EXCEPT !.pc = "done", !.tree = tree]
                 ELSE [kr EXCEPT !.i = kr.i + 1, !.tree = tree]
    /\ UNCHANGED <<vertices, matrix, last, dj>>

\* the loop ran out of edges: return tree
KruskalReturn ==
    /\ kr.pc = "loop" /\ kr.i > Len(kr.edges)
    /\ kr' = [kr EXCEPT !.pc = "done"]
    /\ UNCHANGED <<vertices, matrix, last, dj>>

KruskalNext ==
    \/ Query
    \/ KruskalCall
    \/ KruskalIter
    \/ KruskalReturn

SpecKruskal == InitUndirected /\ [][KruskalNext]_vars

-----------------------------------------------------------------------------
(* dijkstra: numbers.                                                         *)
(* In the dijkstra machine a weight or distance x stands for x millionths, so *)
(* that round(x, 5) is modelled by what it does: rounding to the nearest ten. *)

\* math.inf, the working_distance of a vertex that has not been reached
Inf == 2000000000

Plus(a, b) == IF a = Inf THEN Inf ELSE a + b

Minus(a, b) == IF a = Inf THEN Inf ELSE a - b

\* round(x, 5); the inputs of the model never produce a tie (x % 10 = 5)
Round5(x) ==
    IF x = Inf THEN Inf
    ELSE LET r == x % 10
             down == x - r
         IN  IF r > 5 \/ (r = 5 /\ (down \div 10) % 2 = 1) THEN down + 10 ELSE down

-----------------------------------------------------------------------------
(* dijkstra: objects.                                                         *)
(* dijkstra compares vertices with "is" in places, so a Vertex object is a    *)
(* name and an identity: id 0 is the object stored in the graph's vertex list *)

Obj(name, id) == [name |-> name, id |-> id]

\* a DijkstraVertex; final is meaningful only when visited (final_distance is
\* not None)
DV(vertex, order, working, final, visited) ==
    [vertex |-> vertex, order |-> order, working |-> working,
     final |-> final, visited |-> visited]

\* DijkstraVertex(vertex): order 0, working_distance inf, final_distance None
FreshDV(vertex) == DV(vertex, 0, Inf, 0, FALSE)

\* the list dvs built at the head of dijkstra
InitialDVs(vs, start) ==
    LET Other(i) == Obj(vs[i], 0) # start
        others == SelectSeq(Indices(Len(vs)), Other)
    IN  <<DV(start, 1, 0, 0, TRUE)>> \o [k \in 1..Len(others) |-> FreshDV(Obj(vs[others[k]], 0))]

\* the first position of s that satisfies no smaller-keyed position: min(), max()
FirstLeast(keys, among) ==
    CHOOSE k \in among :
        /\ \A j \in among : keys[k] <= keys[j]
        /\ \A j \in among : (j < k) => keys[j] > keys[k]

FirstGreatest(keys, among) ==
    CHOOSE k \in among :
        /\ \A j \in among : keys[k] >= keys[j]
        /\ \A j \in among : (j < k) => keys[j] < keys[k]

\* [dv for dv in dvs if dv.vertex is vertex][0], for a vertex out of the graph
DVOfStored(dvs, name) ==
    CHOOSE k \in 1..Len(dvs) :
        /\ dvs[k].vertex = Obj(name, 0)
        /\ \A j \in 1..(k - 1) : dvs[j].vertex # Obj(name, 0)

Unvisited(dvs) == {k \in 1..Len(dvs) : ~dvs[k].visited}

LabelStepTakesNextUnvisited(vs, m, dvs) ==
    LET ci == FirstGreatest([k \in 1..Len(dvs) |-> dvs[k].order], 1..Len(dvs))
        current == dvs[ci]
        avoid == {dvs[k].vertex.name : k \in (1..Len(dvs)) \ Unvisited(dvs)}
        connected == GetConnectedVertices(vs, m, current.vertex.name, avoid)
        connected_dvs == {k \in {DVOfStored(dvs, connected[c]) : c \in 1..Len(connected)} :
                            ~dvs[k].visited}
        Weight(k) == Plus(current.final,
                          m[IndexOf(vs, current.vertex.name)][IndexOf(vs, dvs[k].vertex.name)])
        relaxed == [k \in 1..Len(dvs) |->
                      IF k \in connected_dvs /\ Weight(k) < dvs[k].working
                      THEN [dvs[k] EXCEPT !.working = Weight(k)]
                      ELSE dvs[k]]
        new == FirstLeast([k \in 1..Len(dvs) |-> k], Unvisited(dvs) \ {ci})
    IN  [error |-> "none",
         dvs |-> [relaxed EXCEPT ![new] = [relaxed[new] EXCEPT
                    !.final = relaxed[new].working,
                    !.visited = TRUE,
                    !.order = current.order + 1]]]

\* one pass of the first while loop (some dv is unvisited); the result is the
\* new dvs, or the error raised
LabelStep(vs, m, dvs) ==
    LET ci == FirstGreatest([k \in 1..Len(dvs) |-> dvs[k].order], 1..Len(dvs))
        current == dvs[ci]
    IN  IF current.vertex.name \notin Range(vs)
        THEN [error |-> "ValueError", dvs |-> dvs]
        ELSE
        LET avoid == {dvs[k].vertex.name : k \in (1..Len(dvs)) \ Unvisited(dvs)}
            connected == GetConnectedVertices(vs, m, current.vertex.name, avoid)
            connected_dvs == {k \in {DVOfStored(dvs, connected[c]) : c \in 1..Len(connected)} :
                                ~dvs[k].visited}
            Weight(k) == Plus(current.final,
                              m[IndexOf(vs, current.vertex.name)][IndexOf(vs, dvs[k].vertex.name)])
            relaxed == [k \in 1..Len(dvs) |->
                          IF k \in connected_dvs /\ Weight(k) < dvs[k].working
                          THEN [dvs[k] EXCEPT !.working = Weight(k)]
                          ELSE dvs[k]]
            new == FirstLeast([k \in 1..Len(dvs) |-> relaxed[k].working],
                              Unvisited(dvs) \ {ci})
        IN  [error |-> "none",
             dvs |-> [relaxed EXCEPT ![new] = [relaxed[new] EXCEPT
                        !.final = relaxed[new].working,
                        !.visited = TRUE,
                        !.order = current.order + 1]]]

\* [dv for dv in dvs if dv.vertex is end]
DVsOf(dvs, end) == {k \in 1..Len(dvs) : dvs[k].vertex = end}

PathNames(path) == {path[i].name : i \in 1..Len(path)}

\* open_dvs of one pass of the second while loop, as positions in dvs
OpenDVs(dvs, path) == {k \in 1..Len(dvs) : dvs[k].vertex.name \notin PathNames(path)}

\* the open dvs that the pass may append: joined to the working vertex by an edge
\* into it, at the distance the edge leaves
StepsBack(vs, m, dvs, w, path) ==
    {k \in OpenDVs(dvs, path) :
        /\ dvs[w].vertex.name \in Range(GetConnectedVertices(vs, m, dvs[k].vertex.name, {}))
        /\ Round5(Minus(dvs[w].final,
                        m[IndexOf(vs, dvs[k].vertex.name)][IndexOf(vs, dvs[w].vertex.name)]))
             = Round5(dvs[k].final)}

\* path[::-1]
Reverse(s) == [i \in 1..Len(s) |-> s[Len(s) + 1 - i]]

-----------------------------------------------------------------------------
(* The dijkstra machine: the input graph is (vertices, matrix); dj holds the  *)
(* position in dijkstra(), its arguments and its locals.  dj.spins records    *)
(* that a pass of the second loop changed nothing: every later pass is the    *)
(* same pass, and the call never returns.                                    *)

\* The input graphs of dijkstra have at most MaxDijkstraVertices vertices.
MaxDijkstraVertices == 3

\* The input graphs of dijkstra have at most MaxDijkstraEdges nonzero cells.
MaxDijkstraEdges == 3

\* 1.0 and 2.000002, in millionths
DijkstraWeights == {1000000, 2000002}

OrderedPairs(n) == {p \in (1..n) \X (1..n) : p[1] # p[2]}

DirectedMatrix(n, f) ==
    IF n = 0 THEN EmptyMatrix
    ELSE [i \in 1..n |-> [j \in 1..n |-> IF i = j THEN 0 ELSE f[<<i, j>>]]]

\* the graph of the tests: A-B 3, A-C 19, A-E 12, B-C 5, B-D 9, C-D 2, C-E 11
ExampleVertices == <<"A", "B", "C", "D", "E">>

ExampleMatrix ==
    <<<<0, 3000000, 19000000, 0, 12000000>>,
      <<3000000, 0, 5000000, 9000000, 0>>,
      <<19000000, 5000000, 0, 2000000, 11000000>>,
      <<0, 9000000, 2000000, 0, 0>>,
      <<12000000, 0, 11000000, 0, 0>>>>

\* the input is any directed graph within the bounds, or the graph of the tests
InitDirected ==
    /\ \/ \E n \in 0..MaxDijkstraVertices :
            /\ vertices = SubSeq(NameSeq, 1, n)
            /\ \E f \in [OrderedPairs(n) -> DijkstraWeights \cup {0}] :
                /\ Cardinality({p \in OrderedPairs(n) : f[p] # 0}) <= MaxDijkstraEdges
                /\ matrix = DirectedMatrix(n, f)
       \/ (vertices = ExampleVertices /\ matrix = ExampleMatrix)
    /\ last = Call("init", "", "", 0, FALSE, "ok")
    /\ kr = NoRun
    /\ dj = NoRun

\* the Vertex objects a caller passes: the ones stored in the graph
CallArguments == {Obj(vertices[i], 0) : i \in 1..Len(vertices)}

\* dijkstra(graph, start, end) up to its first loop
DijkstraCall(start, end) ==
    /\ dj.pc = "idle"
    /\ dj' = [pc |-> "label", start |-> start, end |-> end,
              dvs |-> InitialDVs(vertices, start),
              w |-> 0, path |-> <<>>, spins |-> FALSE, error |-> "none"]
    /\ UNCHANGED <<vertices, matrix, last, kr>>

\* one pass of the first while loop
DijkstraLabel ==
    /\ dj.pc = "label" /\ Unvisited(dj.dvs) # {}
    /\ LET step == LabelStep(vertices, matrix, dj.dvs)
       IN  dj' = IF step.error # "none"
                 THEN [dj EXCEPT !.pc = "raised", !.error = step.error]
                 ELSE [dj EXCEPT !.dvs = step.dvs]
    /\ UNCHANGED <<vertices, matrix, last, kr>>

\* the first loop is over: working_dv = [dv for dv in dvs if dv.vertex is end][0]
DijkstraFindEnd ==
    /\ dj.pc = "label" /\ Unvisited(dj.dvs) = {}
    /\ dj' = IF DVsOf(dj.dvs, dj.end) = {}
             THEN [dj EXCEPT !.pc = "raised", !.error = "IndexError"]
             ELSE LET w == FirstLeast([k \in 1..Len(dj.dvs) |-> k], DVsOf(dj.dvs, dj.end))
                  IN  [dj EXCEPT !.pc = "trace", !.w = w, !.path = <<dj.dvs[w].vertex>>]
    /\ UNCHANGED <<vertices, matrix, last, kr>>

\* a pass of the second loop that is made before the loop condition is tested
DijkstraTraceBeforeTest ==
    /\ dj.pc = "trace" /\ ~dj.spins
    /\ LET open == OpenDVs(dj.dvs, dj.path)
           steps == StepsBack(vertices, matrix, dj.dvs, dj.w, dj.path)
       IN  dj' = IF \E k \in open : dj.dvs[k].vertex.name \notin Range(vertices)
                 THEN [dj EXCEPT !.pc = "raised", !.error = "ValueError"]
                 ELSE IF steps = {}
                 THEN [dj EXCEPT !.spins = TRUE]
                 ELSE LET k == FirstLeast([j \in 1..Len(dj.dvs) |-> j], steps)
                      IN  [dj EXCEPT !.w = k, !.path = Append(dj.path, dj.dvs[k].vertex)]
    /\ UNCHANGED <<vertices, matrix, last, kr>>

\* one pass of the second while loop
DijkstraTrace ==
    /\ dj.pc = "trace" /\ dj.dvs[dj.w].vertex # dj.start /\ ~dj.spins
    /\ LET open == OpenDVs(dj.dvs, dj.path)
           steps == StepsBack(vertices, matrix, dj.dvs, dj.w, dj.path)
       IN  dj' = IF \E k \in open : dj.dvs[k].vertex.name \notin Range(vertices)
                 THEN [dj EXCEPT !.pc = "raised", !.error = "ValueError"]
                 ELSE IF steps = {}
                 THEN [dj EXCEPT !.spins = TRUE]
                 ELSE LET k == FirstLeast([j \in 1..Len(dj.dvs) |-> j], steps)
                      IN  [dj EXCEPT !.w = k, !.path = Append(dj.path, dj.dvs[k].vertex)]
    /\ UNCHANGED <<vertices, matrix, last, kr>>

\* the second loop is over: return path[::-1]
DijkstraReturn ==
    /\ dj.pc = "trace" /\ dj.dvs[dj.w].vertex = dj.start
    /\ dj' = [dj EXCEPT !.pc = "done", !.path = Reverse(dj.path)]
    /\ UNCHANGED <<vertices, matrix, last, kr>>

DijkstraNext ==
    \/ \E start \in CallArguments, end \in CallArguments : DijkstraCall(start, end)
    \/ DijkstraLabel
    \/ DijkstraFindEnd
    \/ DijkstraTrace
    \/ DijkstraReturn

SpecDijkstra == InitDirected /\ [][DijkstraNext]_vars

-----------------------------------------------------------------------------
(* dijkstra called with any Vertex objects: the ones stored in the graph,     *)
(* other objects of the same names (id 1), and an object whose name no vertex *)
(* of the graph has                                                           *)

AnyArguments ==
    {Obj(vertices[i], id) : i \in 1..Len(vertices), id \in {0, 1}}
        \cup {Obj(NameSeq[Len(vertices) + 1], 1)}

DijkstraAnyNext ==
    \/ \E start \in AnyArguments, end \in AnyArguments : DijkstraCall(start, end)
    \/ DijkstraLabel
    \/ DijkstraFindEnd
    \/ DijkstraTrace
    \/ DijkstraReturn

SpecDijkstraAny == InitDirected /\ [][DijkstraAnyNext]_vars

-----------------------------------------------------------------------------
(* dijkstra as a function of its arguments: the passes of the machine above,  *)
(* run to the end.  The outcome is the path returned, the error raised, or    *)
(* "spins" when the second loop repeats a pass that changes nothing.          *)

\* the first while loop
RECURSIVE LabelAll(_, _, _)
LabelAll(vs, m, dvs) ==
    IF Unvisited(dvs) = {} THEN [error |-> "none", dvs |-> dvs]
    ELSE LET step == LabelStep(vs, m, dvs)
         IN  IF step.error # "none" THEN step ELSE LabelAll(vs, m, step.dvs)

\* the second while loop
RECURSIVE TraceAll(_, _, _, _, _, _)
TraceAll(vs, m, dvs, start, w, path) ==
    IF dvs[w].vertex = start THEN [kind |-> "done", path |-> Reverse(path)]
    ELSE IF \E k \in OpenDVs(dvs, path) : dvs[k].vertex.name \notin Range(vs)
    THEN [kind |-> "ValueError", path |-> <<>>]
    ELSE LET steps == StepsBack(vs, m, dvs, w, path)
         IN  IF steps = {} THEN [kind |-> "spins", path |-> <<>>]
             ELSE LET k == FirstLeast([j \in 1..Len(dvs) |-> j], steps)
                  IN  TraceAll(vs, m, dvs, start, k, Append(path, dvs[k].vertex))

DijkstraOutcome(vs, m, start, end) ==
    LET labelled == LabelAll(vs, m, InitialDVs(vs, start))
    IN  IF labelled.error # "none" THEN [kind |-> labelled.error, path |-> <<>>]
        ELSE IF DVsOf(labelled.dvs, end) = {} THEN [kind |-> "IndexError", path |-> <<>>]
        ELSE LET w == FirstLeast([k \in 1..Len(labelled.dvs) |-> k], DVsOf(labelled.dvs, end))
             IN  TraceAll(vs, m, labelled.dvs, start, w, <<labelled.dvs[w].vertex>>)

-----------------------------------------------------------------------------
(* kruskal on the undirected inputs above and on the small graph of the tests *)

\* small_graph of the tests, its weights as the tests write them
SmallGraphMatrix ==
    [i \in 1..5 |-> [j \in 1..5 |-> ExampleMatrix[i][j] \div 1000000]]

OnSmallGraph == vertices = ExampleVertices /\ matrix = SmallGraphMatrix

InitKruskalTests ==
    \/ InitUndirected
    \/ /\ OnSmallGraph
       /\ last = Call("init", "", "", 0, FALSE, "ok")
       /\ kr = NoRun
       /\ dj = NoRun

SpecKruskalTests == InitKruskalTests /\ [][KruskalNext]_vars

-----------------------------------------------------------------------------
(* The caller's machine: one call of kruskal() or of dijkstra() on a graph,   *)
(* and, once kruskal() has returned, one add_edge or remove_edge on the input *)
(* graph or on the graph returned                                             *)

\* the weights the caller writes: 0 (remove_edge) and 1.0
CallerWeights == {0, 1000000}

\* graph.add_edge(v, u, weight, directed) on the input graph after kruskal(graph)
MutateInput(v, u, weight, directed) ==
    /\ kr.pc = "done" /\ last.op = "init"
    /\ matrix' = SetEdge(vertices, matrix, v, u, weight, directed)
    /\ last' = Call("graph.add_edge", v, u, weight, directed, "ok")
    /\ UNCHANGED <<vertices, kr, dj>>

\* tree.add_edge(v, u, weight, directed) on the graph that kruskal(graph) returned
MutateTree(v, u, weight, directed) ==
    /\ kr.pc = "done" /\ last.op = "init"
    /\ kr' = [kr EXCEPT !.tree = SetEdge(kr.vertices, kr.tree, v, u, weight, directed)]
    /\ last' = Call("tree.add_edge", v, u, weight, directed, "ok")
    /\ UNCHANGED <<vertices, matrix, dj>>

CallerNext ==
    \/ dj.pc = "idle" /\ KruskalNext
    \/ kr.pc = "idle" /\ last.op = "init" /\ DijkstraNext
    \/ \E v \in Range(vertices), u \in Range(vertices), w \in CallerWeights, d \in BOOLEAN :
            MutateInput(v, u, w, d)
    \/ \E v \in Range(vertices), u \in Range(vertices), w \in CallerWeights, d \in BOOLEAN :
            MutateTree(v, u, w, d)

SpecCaller == InitDirected /\ [][CallerNext]_vars

-----------------------------------------------------------------------------
(* Graphs as the mutating methods can leave them: any vertex count, any cells *)

\* The weights of the nonzero cells of these graphs.
CellWeights == {1, 2}

\* (vertices, matrix) is a graph of at most maxVertices vertices with at most
\* maxCells nonzero cells, self-loops and one-way edges included
AnyGraph(maxVertices, maxCells) ==
    \E n \in 0..maxVertices :
        /\ vertices = SubSeq(NameSeq, 1, n)
        /\ \E cells \in SUBSET ((1..n) \X (1..n)) :
            /\ Cardinality(cells) <= maxCells
            /\ \E f \in [cells -> CellWeights] :
                 matrix = IF n = 0 THEN EmptyMatrix
                          ELSE [i \in 1..n |-> [j \in 1..n |->
                                  IF <<i, j>> \in cells THEN f[<<i, j>>] ELSE 0]]

-----------------------------------------------------------------------------
(* The add_vertices machine: one call of add_vertices on a graph               *)

\* The graphs add_vertices is first called on have at most MaxBatchVertices
\* vertices; the calls pass at most MaxBatchVertices + 1 arguments, drawn from
\* MaxBatchVertices + 1 names.
MaxBatchVertices == 2

\* The graphs add_vertices is first called on have at most MaxBatchCells nonzero cells.
MaxBatchCells == 2

BatchNames == {NameSeq[i] : i \in 1..(MaxBatchVertices + 1)}

RECURSIVE SeqsUpTo(_, _)
SeqsUpTo(S, n) ==
    IF n = 0 THEN {<<>>}
    ELSE LET shorter == SeqsUpTo(S, n - 1)
         IN  shorter \cup {Append(t, x) : t \in shorter, x \in S}

InitBatch ==
    /\ AnyGraph(MaxBatchVertices, MaxBatchCells)
    /\ last = Call("init", "", "", 0, FALSE, "ok")
    /\ kr = NoRun
    /\ dj = NoRun

\* graph.add_vertices(*args), called once on the graph
AddVertices(args) ==
    /\ last.op = "init"
    /\ LET r == AddVerticesResult(vertices, matrix, args)
       IN  /\ vertices' = r.vertices
           /\ matrix' = r.matrix
           /\ last' = [op |-> "add_vertices", args |-> args, result |-> r.result]
    /\ UNCHANGED <<kr, dj>>

BatchNext == \E args \in SeqsUpTo(BatchNames, MaxBatchVertices + 1) : AddVertices(args)

SpecBatch == InitBatch /\ [][BatchNext]_vars

-----------------------------------------------------------------------------
(* The query machine: one call of get_connected_vertices, or a reading of     *)
(* is_connected and has_cycles, on a graph                                    *)

\* The graphs that are queried have at most MaxQueryVertices vertices.
MaxQueryVertices == 3

\* The graphs that are queried have at most MaxQueryCells nonzero cells.
MaxQueryCells == 3

InitQueries ==
    /\ AnyGraph(MaxQueryVertices, MaxQueryCells)
    /\ last = Call("init", "", "", 0, FALSE, "ok")
    /\ kr = NoRun
    /\ dj = NoRun

\* a name that no vertex of the graph has
ForeignName == NameSeq[Len(vertices) + 1]

\* graph.get_connected_vertices(vertex, avoid) for a vertex of the graph; avoid
\* is the set of the names in the avoid list
ConnectedVerticesCall(vertex, avoid) ==
    /\ last.op = "init"
    /\ last' = [op |-> "get_connected_vertices", vertex |-> vertex, avoid |-> avoid,
                result |-> GetConnectedVertices(vertices, matrix, vertex, avoid)]
    /\ UNCHANGED <<vertices, matrix, kr, dj>>

QueriesNext ==
    \/ Query
    \/ \E vertex \in Range(vertices), avoid \in SUBSET (Range(vertices) \cup {ForeignName}) :
            ConnectedVerticesCall(vertex, avoid)

SpecQueries == InitQueries /\ [][QueriesNext]_vars

-----------------------------------------------------------------------------
(* kruskal on any graph: one-way edges, opposite edges of different weights   *)
(* and self-loops included, and the larger undirected graphs                  *)

InitAnyInput == InitQueries \/ InitUndirected

SpecKruskalAny == InitAnyInput /\ [][KruskalNext]_vars

-----------------------------------------------------------------------------
(* The readings machine: number_of_odd_nodes, is_eulerian and                 *)
(* is_semi_eulerian read off a graph                                          *)

Readings ==
    /\ last.op = "init"
    /\ last' = [op |-> "readings",
                number_of_odd_nodes |-> NumberOfOddNodes(matrix),
                is_eulerian |-> IsEulerian(matrix),
                is_semi_eulerian |-> IsSemiEulerian(matrix)]
    /\ UNCHANGED <<vertices, matrix, kr, dj>>

ReadingsNext == Readings

SpecReadings == InitQueries /\ [][ReadingsNext]_vars

-----------------------------------------------------------------------------
(* The path machine: one call of weight_of_path on a graph                    *)

\* The graphs weight_of_path is called on have at most MaxPathVertices vertices
\* and MaxPathVertices nonzero cells; a path has at most MaxPathVertices + 1
\* vertices, one of which may be foreign to the graph.
MaxPathVertices == 2

InitPaths ==
    /\ AnyGraph(MaxPathVertices, MaxPathVertices)
    /\ last = Call("init", "", "", 0, FALSE, "ok")
    /\ kr = NoRun
    /\ dj = NoRun

\* graph.weight_of_path(path)
WeightOfPathCall(path) ==
    /\ last.op = "init"
    /\ last' = [op |-> "weight_of_path", path |-> path,
                outcome |-> WeightOfPath(vertices, matrix, path)]
    /\ UNCHANGED <<vertices, matrix, kr, dj>>

PathsNext ==
    \E path \in SeqsUpTo(Range(vertices) \cup {ForeignName}, MaxPathVertices + 1) :
        WeightOfPathCall(path)

SpecPaths == InitPaths /\ [][PathsNext]_vars

-----------------------------------------------------------------------------
(* The edge-call machine: one call of add_edge or remove_edge between         *)
(* vertices of a graph                                                        *)

EdgeCallsNext ==
    \/ \E v \in Range(vertices), u \in Range(vertices), w \in Weights, d \in BOOLEAN :
            last.op = "init" /\ AddEdge(v, u, w, d)
    \/ \E v \in Range(vertices), u \in Range(vertices), d \in BOOLEAN :
            last.op = "init" /\ RemoveEdge(v, u, d)

SpecEdgeCalls == InitPaths /\ [][EdgeCallsNext]_vars

-----------------------------------------------------------------------------
(* What the claims about undirected graphs measure the code against: these    *)
(* definitions use none of the code's searches                                *)

\* the vertices reachable from the set S along nonzero cells of m
RECURSIVE ReachableFrom(_, _)
ReachableFrom(m, S) ==
    LET T == S \cup {j \in 1..Len(m) : \E i \in S : m[i][j] # 0}
    IN  IF T = S THEN S ELSE ReachableFrom(m, T)

\* every vertex reaches every vertex
TrulyConnected(vs, m) ==
    \A i \in 1..Len(vs) : ReachableFrom(m, {i}) = 1..Len(vs)

Symmetric(vs, m) == \A i \in 1..Len(vs), j \in 1..Len(vs) : m[i][j] = m[j][i]

HasSelfLoop(vs, m) == \E i \in 1..Len(vs) : m[i][i] # 0

PositiveWeights(vs, m) == \A i \in 1..Len(vs), j \in 1..Len(vs) : m[i][j] >= 0

\* the undirected edges between distinct vertices
EdgePairs(vs, m) == {p \in UnorderedPairs(Len(vs)) : m[p[1]][p[2]] # 0}

\* the matrix with weight 1 on the pairs of T, both ways
MatrixOfPairs(n, T) ==
    [i \in 1..n |-> [j \in 1..n |-> IF <<i, j>> \in T \/ <<j, i>> \in T THEN 1 ELSE 0]]

Components(vs, m) == {ReachableFrom(m, {i}) : i \in 1..Len(vs)}

\* a symmetric graph has a cycle through three or more distinct vertices exactly
\* when it has more edges than a forest on its components has
HasLongCycle(vs, m) ==
    Cardinality(EdgePairs(vs, m)) > Len(vs) - Cardinality(Components(vs, m))

RECURSIVE WeightOfPairs(_, _)
WeightOfPairs(m, T) ==
    IF T = {} THEN 0
    ELSE LET p == CHOOSE q \in T : TRUE
         IN  m[p[1]][p[2]] + WeightOfPairs(m, T \ {p})

\* the spanning trees of a connected symmetric graph, as sets of its edges
SpanningTrees(vs, m) ==
    {T \in SUBSET EdgePairs(vs, m) :
        /\ Cardinality(T) = Len(vs) - 1
        /\ ReachableFrom(MatrixOfPairs(Len(vs), T), {1}) = 1..Len(vs)}

MinSpanningWeight(vs, m) ==
    LET weights == {WeightOfPairs(m, T) : T \in SpanningTrees(vs, m)}
    IN  CHOOSE w \in weights : \A x \in weights : w <= x

\* kruskal() has returned for a connected undirected input with a vertex
KruskalDoneOnConnected ==
    /\ kr.pc = "done"
    /\ Len(vertices) >= 1
    /\ Symmetric(vertices, matrix)
    /\ TrulyConnected(vertices, matrix)

-----------------------------------------------------------------------------
(* Claims about kruskal and the structural queries on undirected graphs       *)
(* (checked under SpecKruskal)                                                *)

\* C1: for a connected undirected graph without self-loops and with positive
\* weights, the weight of kruskal's result, each undirected edge counted once
\* (total_weight / 2), is the least weight of a spanning tree of the input.
C1_KruskalWeightIsMinimal ==
    (KruskalDoneOnConnected /\ ~HasSelfLoop(vertices, matrix)
        /\ PositiveWeights(vertices, matrix)) =>
        TotalWeight(kr.tree) = 2 * MinSpanningWeight(vertices, matrix)

\* kruskal returned on a 4-vertex graph in which the spanning trees differ in weight
C1_Witness ==
    /\ KruskalDoneOnConnected /\ ~HasSelfLoop(vertices, matrix)
    /\ Len(vertices) = 4
    /\ \E T \in SpanningTrees(vertices, matrix) :
            WeightOfPairs(matrix, T) > MinSpanningWeight(vertices, matrix)

\* C3: for a connected undirected graph kruskal returns a graph with the input's
\* vertex list, on which has_cycles is false (is_tree is true) and in which every
\* vertex is joined to every other: a spanning tree.
C3_KruskalReturnsSpanningTree ==
    KruskalDoneOnConnected =>
        /\ kr.vertices = vertices
        /\ ~HasCycles(kr.vertices, kr.tree)
        /\ IsTree(kr.vertices, kr.tree)
        /\ TrulyConnected(kr.vertices, kr.tree)
        /\ Cardinality(EdgePairs(kr.vertices, kr.tree)) = Len(vertices) - 1

\* kruskal returned on a connected 4-vertex graph that has a cycle
C3_Witness ==
    /\ KruskalDoneOnConnected
    /\ Len(vertices) = 4
    /\ HasLongCycle(vertices, matrix)
    /\ kr.i > 4

\* C5 (the claim as stated): on an undirected graph with at least one vertex
\* is_connected is true exactly when every vertex reaches every other vertex.
C5_IsConnectedIffConnected ==
    (last.op = "query" /\ Len(vertices) >= 1 /\ Symmetric(vertices, matrix)) =>
        ((last.is_connected = "true") <=> TrulyConnected(vertices, matrix))

\* C6: on an undirected graph has_cycles is true exactly when some vertex has a
\* self-loop or there is a cycle through three or more distinct vertices; so a
\* self-loop always makes it true and a forest, connected or not, makes it false.
C6_HasCyclesIffLoopOrCycle ==
    (last.op = "query" /\ Symmetric(vertices, matrix)) =>
        (last.has_cycles <=>
            (HasSelfLoop(vertices, matrix) \/ HasLongCycle(vertices, matrix)))

\* has_cycles was false on a forest of two trees with an edge each
C6_Witness ==
    /\ last.op = "query" /\ ~last.has_cycles
    /\ Len(vertices) = 4
    /\ Cardinality(Components(vertices, matrix)) = 2
    /\ Cardinality(EdgePairs(vertices, matrix)) = 2

-----------------------------------------------------------------------------
(* Claims about dijkstra (checked under SpecDijkstra).  The distances they    *)
(* measure the code against are computed by relaxing every edge Len(m) times. *)

Least(S) == CHOOSE x \in S : \A y \in S : x <= y

RECURSIVE Relaxed(_, _, _)
Relaxed(m, d, rounds) ==
    IF rounds = 0 THEN d
    ELSE Relaxed(m,
                 [j \in 1..Len(m) |->
                    Least({d[j]} \cup {Plus(d[i], m[i][j]) : i \in {h \in 1..Len(m) : m[h][j] # 0}})],
                 rounds - 1)

\* the least total weight of a path from vertex s to vertex e, Inf if there is none
ShortestDistance(m, s, e) ==
    Relaxed(m, [j \in 1..Len(m) |-> IF j = s THEN 0 ELSE Inf], Len(m))[e]

PathWeight(vs, m, path) ==
    SumSeq([k \in 1..(Len(path) - 1) |->
                m[IndexOf(vs, path[k].name)][IndexOf(vs, path[k + 1].name)]])

DijkstraCalled == dj.pc # "idle"

EndReachable ==
    IndexOf(vertices, dj.end.name) \in ReachableFrom(matrix, {IndexOf(vertices, dj.start.name)})

OnExampleGraph ==
    /\ vertices = ExampleVertices /\ matrix = ExampleMatrix
    /\ dj.start.name = "A" /\ dj.end.name = "D"

\* C2: when end is reachable from start (both members, weights positive) the
\* call raises nothing, leaves its second loop, and returns a sequence that
\* begins with start, ends with end, steps only along nonzero cells and has the
\* least total weight of all start-to-end paths; on the graph of the tests
\* dijkstra(A, D) returns A, B, C, D, of total weight 10.
C2_DijkstraReturnsShortestPath ==
    (DijkstraCalled /\ PositiveWeights(vertices, matrix) /\ EndReachable) =>
        /\ dj.pc # "raised"
        /\ ~dj.spins
        /\ (dj.pc = "done") =>
            /\ Len(dj.path) >= 1
            /\ dj.path[1] = dj.start
            /\ dj.path[Len(dj.path)] = dj.end
            /\ \A k \in 1..(Len(dj.path) - 1) :
                 matrix[IndexOf(vertices, dj.path[k].name)]
                       [IndexOf(vertices, dj.path[k + 1].name)] # 0
            /\ PathWeight(vertices, matrix, dj.path)
                 = ShortestDistance(matrix, IndexOf(vertices, dj.start.name),
                                    IndexOf(vertices, dj.end.name))
            /\ OnExampleGraph =>
                 /\ dj.path = <<Obj("A", 0), Obj("B", 0), Obj("C", 0), Obj("D", 0)>>
                 /\ PathWeight(vertices, matrix, dj.path) = 10000000

\* C4: when end is a member other than start and is not reachable from start,
\* the call ends by raising an error: it never returns a path and its second
\* loop never repeats a pass that changes nothing.
C4_UnreachableEndRaises ==
    (DijkstraCalled /\ dj.start # dj.end /\ ~EndReachable) =>
        /\ dj.pc # "done"
        /\ ~dj.spins

-----------------------------------------------------------------------------
(* Claims about the mutation machine (checked under Spec) *)

Square(vs, m) == Len(m) = Len(vs) /\ \A i \in 1..Len(m) : Len(m[i]) = Len(vs)

NoDuplicates(s) == \A i \in 1..Len(s), j \in 1..Len(s) : s[i] = s[j] => i = j

IsPrefix(s, t) == Len(s) <= Len(t) /\ \A i \in 1..Len(s) : s[i] = t[i]

SetEdgeDone(c) == c.op \in {"add_edge", "remove_edge"}

\* C7: a successful add_vertex(v) appends v as the last vertex, keeps every
\* weight between the vertices that were there, and adds one row and one column
\* of zeros; so once a vertex has been added the matrix always has len(vertices)
\* rows of len(vertices) cells, whatever calls were made, failed ones included.
C7_AddVertexKeepsMatrixSquare ==
    [][/\ (last'.op = "add_vertex" /\ last'.result = "ok") =>
            /\ vertices' = Append(vertices, last'.v)
            /\ \A i \in 1..Len(vertices), j \in 1..Len(vertices) :
                    matrix'[i][j] = matrix[i][j]
            /\ Len(matrix') = Len(vertices) + 1
            /\ \A i \in 1..Len(matrix') :
                    /\ Len(matrix'[i]) = Len(vertices) + 1
                    /\ matrix'[i][Len(vertices) + 1] = 0
                    /\ matrix'[Len(vertices) + 1][i] = 0
       /\ (Len(vertices') > 0 => Square(vertices', matrix'))
      ]_vars

\* a vertex was added to a graph that already held a nonzero weight
C7_Witness ==
    /\ last.op = "add_vertex" /\ last.result = "ok"
    /\ Len(vertices) = 2
    /\ matrix[1][1] # 0

\* C8: a successful add_edge(v, u, weight, directed) writes weight to the cell
\* (index(v), index(u)), and to the cell (index(u), index(v)) exactly when the
\* call is undirected, whatever those cells held; every other cell and the
\* vertex list stay as they were; remove_edge(v, u, directed) does what
\* add_edge(v, u, 0, directed) does.
C8_SetEdgeWritesOnlyItsCells ==
    [][(SetEdgeDone(last') /\ last'.result = "ok") =>
            LET vi == IndexOf(vertices, last'.v)
                ui == IndexOf(vertices, last'.u)
                w  == IF last'.op = "remove_edge" THEN 0 ELSE last'.w
            IN  /\ vertices' = vertices
                /\ Len(matrix') = Len(matrix)
                /\ \A i \in 1..Len(matrix) :
                        /\ Len(matrix'[i]) = Len(matrix[i])
                        /\ \A j \in 1..Len(matrix[i]) :
                              matrix'[i][j] =
                                IF i = vi /\ j = ui THEN w
                                ELSE IF ~last'.d /\ i = ui /\ j = vi THEN w
                                ELSE matrix[i][j]
      ]_vars

\* a directed add_edge gave one direction a weight the other direction does not have
C8_Witness ==
    /\ last.op = "add_edge" /\ last.result = "ok" /\ last.d
    /\ last.v # last.u
    /\ matrix[IndexOf(vertices, last.v)][IndexOf(vertices, last.u)] = 2
    /\ matrix[IndexOf(vertices, last.u)][IndexOf(vertices, last.v)] = 1

\* C9: add_edge or remove_edge with an endpoint that is not in the graph fails
\* with VertexDoesntExistError and changes neither the vertex list nor any cell,
\* whichever of the two arguments is the missing one.
C9_MissingEndpointRejected ==
    [][(SetEdgeDone(last') /\
            (last'.v \notin Range(vertices) \/ last'.u \notin Range(vertices))) =>
            /\ last'.result = "VertexDoesntExistError"
            /\ vertices' = vertices
            /\ matrix' = matrix
      ]_vars

\* the call failed although its first endpoint is in the graph
C9_Witness ==
    /\ SetEdgeDone(last) /\ last.result = "VertexDoesntExistError"
    /\ last.v \in Range(vertices)
    /\ last.u \notin Range(vertices)
    /\ matrix[1][1] # 0

\* C10: add_vertex(v) with v already in the graph fails with
\* VertexAlreadyAddedError and changes nothing; so the vertex list never holds a
\* name twice and only ever grows at its end.
C10_DuplicateVertexRejected ==
    [][/\ (last'.op = "add_vertex" /\ last'.v \in Range(vertices)) =>
            /\ last'.result = "VertexAlreadyAddedError"
            /\ vertices' = vertices
            /\ matrix' = matrix
       /\ NoDuplicates(vertices')
       /\ IsPrefix(vertices, vertices')
      ]_vars

\* a second add_vertex of the first of two vertices was rejected
C10_Witness ==
    /\ last.op = "add_vertex" /\ last.result = "VertexAlreadyAddedError"
    /\ Len(vertices) = 2
    /\ last.v = vertices[1]

-----------------------------------------------------------------------------
(* Claims about add_vertices (checked under SpecBatch) *)

\* the position of the first argument that is already in vs or is repeated among
\* the arguments before it; Len(args) + 1 if there is none
FirstPresent(vs, args) ==
    LET Present(i) == args[i] \in Range(vs) \cup {args[j] : j \in 1..(i - 1)}
        bad == {i \in 1..Len(args) : Present(i)}
    IN  IF bad = {} THEN Len(args) + 1 ELSE CHOOSE i \in bad : \A j \in bad : i <= j

\* C11: add_vertices(v1, ..., vk) adds its arguments in order up to the first
\* one, vi, that is already in the graph or was added earlier in the same call,
\* and then raises VertexAlreadyAddedError: the vertex list is the old one
\* followed by v1..v(i-1), the old cells are kept, the new rows and columns are
\* zero and the matrix is square; without such a vi all arguments are added.
C11_AddVerticesStopsAtFirstPresent ==
    [][(last'.op = "add_vertices") =>
            LET args == last'.args
                i == FirstPresent(vertices, args)
                old == Len(vertices)
            IN  /\ last'.result = IF i <= Len(args) THEN "VertexAlreadyAddedError" ELSE "ok"
                /\ vertices' = vertices \o SubSeq(args, 1, i - 1)
                /\ Range(vertices') \ Range(vertices) = {args[j] : j \in 1..(i - 1)}
                /\ IF Len(vertices') = 0 THEN matrix' = matrix
                   ELSE /\ Square(vertices', matrix')
                        /\ \A a \in 1..Len(vertices'), b \in 1..Len(vertices') :
                             matrix'[a][b] = IF a <= old /\ b <= old THEN matrix[a][b] ELSE 0
      ]_vars

\* a call added its first two arguments to a graph with a nonzero cell and was
\* stopped by its third, a repetition of its first
C11_Witness ==
    /\ last.op = "add_vertices" /\ last.result = "VertexAlreadyAddedError"
    /\ Len(last.args) = 3 /\ last.args[3] = last.args[1]
    /\ Len(vertices) = 3
    /\ vertices[2] = last.args[1] /\ vertices[3] = last.args[2]
    /\ matrix[1][1] # 0

-----------------------------------------------------------------------------
(* Claims about get_connected_vertices and the structural queries on graphs   *)
(* with one-way edges and self-loops (checked under SpecQueries)              *)

ConnectedVerticesCalled == last.op = "get_connected_vertices"

\* the result lists vertices of the graph in vertex-list order, none twice
InVertexOrder(vs, r) ==
    /\ \A k \in 1..Len(r) : r[k] \in Range(vs)
    /\ \A k \in 1..(Len(r) - 1) : IndexOf(vs, r[k]) < IndexOf(vs, r[k + 1])

\* w is joined from v by a nonzero cell and is not avoided, or is joined back
\* by a different weight
Neighbour(vs, m, v, w, avoid) ==
    LET vi == IndexOf(vs, v)
        wi == IndexOf(vs, w)
    IN  m[vi][wi] # 0 /\ (w \notin avoid \/ m[wi][vi] # m[vi][wi])

ExactlyTheNeighbours ==
    /\ InVertexOrder(vertices, last.result)
    /\ Range(last.result) =
          {w \in Range(vertices) : Neighbour(vertices, matrix, last.vertex, w, last.avoid)}

SelfLoopAt(vs, m, v) == m[IndexOf(vs, v)][IndexOf(vs, v)] # 0

\* C12 as stated: the result is exactly the neighbours by the rule above, in
\* vertex-list order without repetition, and a self-loop on v puts v in the
\* result, for every avoid list.
C12_Original ==
    ConnectedVerticesCalled =>
        /\ ExactlyTheNeighbours
        /\ SelfLoopAt(vertices, matrix, last.vertex) => last.vertex \in Range(last.result)

\* C12: get_connected_vertices(v, avoid) returns, in vertex-list order and
\* without repetition, exactly the vertices w with a nonzero cell from v to w
\* that are not in avoid or whose cell back to v differs; a self-loop on v puts
\* v in the result exactly when v is not in avoid.
C12_ConnectedVerticesAreTheNeighbours ==
    ConnectedVerticesCalled =>
        /\ ExactlyTheNeighbours
        /\ SelfLoopAt(vertices, matrix, last.vertex) =>
              (last.vertex \in Range(last.result) <=> last.vertex \notin last.avoid)

\* v has a self-loop and is avoided, and an avoided neighbour joined back by a
\* different weight is returned
C12_Witness ==
    /\ ConnectedVerticesCalled
    /\ SelfLoopAt(vertices, matrix, last.vertex)
    /\ last.vertex \in last.avoid
    /\ \E w \in Range(last.result) : w \in last.avoid

Queried == last.op = "query"

\* C13: on a graph without vertices is_connected is true and has_cycles is
\* false; on a graph of one vertex without a self-loop is_connected is true.
C13_TrivialGraphsAreConnected ==
    Queried =>
        /\ (Len(vertices) = 0) => (last.is_connected = "true" /\ ~last.has_cycles)
        /\ (Len(vertices) = 1 /\ ~HasSelfLoop(vertices, matrix)) => last.is_connected = "true"

\* two distinct vertices are joined both ways by different nonzero weights
TwoWayDifferentWeights(vs, m) ==
    \E i \in 1..Len(vs), j \in 1..Len(vs) :
        i # j /\ m[i][j] # 0 /\ m[j][i] # 0 /\ m[i][j] # m[j][i]

\* C14: has_cycles is true on every graph in which two distinct vertices are
\* joined in both directions by different nonzero weights.
C14_TwoWayDifferentWeightsIsACycle ==
    (Queried /\ TwoWayDifferentWeights(vertices, matrix)) => last.has_cycles

\* has_cycles was read on a graph whose only edges are A->B and B->A, of
\* different weights, beside a third vertex
C14_Witness ==
    /\ Queried /\ last.has_cycles
    /\ Len(vertices) = 3
    /\ TwoWayDifferentWeights(vertices, matrix)
    /\ NonzeroCells(matrix) = 2

-----------------------------------------------------------------------------
(* Claims about the arguments of dijkstra (C15 is checked under SpecDijkstra,  *)
(* C16 and C17 under SpecDijkstraAny)                                         *)

IsMember(v) == v.name \in Range(vertices)

Names_(path) == [k \in 1..Len(path) |-> path[k].name]

\* C15: dijkstra(G, s, s) for a vertex s of G, whatever the edges of G are,
\* raises nothing, does not enter a loop it cannot leave, and returns the
\* one-element path [s].
C15_SameStartAndEndGivesSingleton ==
    (DijkstraCalled /\ dj.start = dj.end /\ IsMember(dj.start)) =>
        /\ dj.pc # "raised"
        /\ ~dj.spins
        /\ (dj.pc = "done") => dj.path = <<dj.start>>

\* dijkstra(G, s, s) returned [s] on a graph of three vertices in which s has
\* no edge at all and the other two are joined
C15_Witness ==
    /\ DijkstraCalled /\ dj.pc = "done"
    /\ dj.start = dj.end /\ dj.path = <<dj.start>>
    /\ Len(vertices) = 3
    /\ LET si == IndexOf(vertices, dj.start.name)
       IN  /\ \A j \in 1..3 : matrix[si][j] = 0 /\ matrix[j][si] = 0
           /\ NonzeroCells(matrix) >= 1

\* C16: dijkstra called with a start or an end that is not a vertex of the
\* graph returns no path (it ends by raising an error), on every graph, the
\* empty one included, and also when start and end are the same object.
C16_NonMemberArgumentRaises ==
    (DijkstraCalled /\ (~IsMember(dj.start) \/ ~IsMember(dj.end))) =>
        /\ dj.pc # "done"
        /\ ~dj.spins

\* C17: dijkstra called with objects s2 and e2 that are not the stored ones but
\* have the names of the vertices s and e returns the sequence of names that
\* dijkstra(graph, s, e) returns, and raises nothing and leaves its loops
\* whenever dijkstra(graph, s, e) returns.
C17_EqualNamesGiveEqualPaths ==
    (DijkstraCalled /\ IsMember(dj.start) /\ IsMember(dj.end)
        /\ dj.start.id # 0 /\ dj.end.id # 0) =>
        LET stored == DijkstraOutcome(vertices, matrix,
                                      Obj(dj.start.name, 0), Obj(dj.end.name, 0))
        IN  (stored.kind = "done") =>
                /\ dj.pc # "raised"
                /\ ~dj.spins
                /\ (dj.pc = "done") => Names_(dj.path) = Names_(stored.path)

-----------------------------------------------------------------------------
(* Claims about kruskal on disconnected inputs (checked under SpecKruskal)    *)

\* a kruskal() call was made on an undirected input in which some vertex
\* does not reach some other
KruskalCalledOnDisconnected ==
    /\ kr.pc # "idle"
    /\ Symmetric(vertices, matrix)
    /\ ~TrulyConnected(vertices, matrix)

\* C18: on a disconnected undirected input kruskal raises nothing, and the
\* graph it returns has the input's vertices, has_cycles false, and a path
\* between two vertices exactly when the input has one: a spanning forest.
C18_KruskalReturnsSpanningForest ==
    KruskalCalledOnDisconnected =>
        /\ kr.pc # "raised"
        /\ (kr.pc = "done") =>
            /\ kr.vertices = vertices
            /\ ~HasCycles(kr.vertices, kr.tree)
            /\ Symmetric(kr.vertices, kr.tree)
            /\ \A i \in 1..Len(vertices) :
                 ReachableFrom(kr.tree, {i}) = ReachableFrom(matrix, {i})

\* kruskal returned on a 4-vertex input made of a triangle and a vertex apart,
\* after a pass that took the edge that closes the triangle out again
C18_Witness ==
    /\ KruskalCalledOnDisconnected /\ kr.pc = "done"
    /\ Len(vertices) = 4
    /\ HasLongCycle(vertices, matrix)
    /\ Cardinality(EdgePairs(kr.vertices, kr.tree)) = 2

-----------------------------------------------------------------------------
(* Claims about kruskal on the graph of the tests (checked under              *)
(* SpecKruskalTests)                                                          *)

\* the vertices A..E with exactly the edges A-B 3, B-C 5, C-D 2, C-E 11
ExpectedSmallTree ==
    <<<<0, 3, 0, 0, 0>>,
      <<3, 0, 5, 0, 0>>,
      <<0, 5, 0, 2, 11>>,
      <<0, 0, 2, 0, 0>>,
      <<0, 0, 11, 0, 0>>>>

\* C19 as stated: on the graph A..E with the undirected edges A-B 3, A-C 19,
\* A-E 12, B-C 5, B-D 9, C-D 2, C-E 11 kruskal returns the graph with the same
\* vertex list and exactly the edges A-B 3, B-C 5, C-D 2, C-E 11, whose weights
\* sum to 42 with each pair counted once and whose total_weight is 84.
C19_Original ==
    (OnSmallGraph /\ kr.pc # "idle") =>
        /\ kr.pc # "raised"
        /\ (kr.pc = "done") =>
            /\ kr.vertices = ExampleVertices
            /\ kr.tree = ExpectedSmallTree
            /\ WeightOfPairs(kr.tree, EdgePairs(kr.vertices, kr.tree)) = 42
            /\ TotalWeight(kr.tree) = 84

\* C19: on that graph kruskal raises nothing and returns the graph with the
\* same vertex list and exactly the edges A-B 3, B-C 5, C-D 2, C-E 11; their
\* weights sum to 21 with each pair counted once, and total_weight, which
\* counts both cells of an undirected edge, is 42.
C19_KruskalOnSmallGraph ==
    (OnSmallGraph /\ kr.pc # "idle") =>
        /\ kr.pc # "raised"
        /\ (kr.pc = "done") =>
            /\ kr.vertices = ExampleVertices
            /\ kr.tree = ExpectedSmallTree
            /\ WeightOfPairs(kr.tree, EdgePairs(kr.vertices, kr.tree)) = 21
            /\ TotalWeight(kr.tree) = 42

\* kruskal returned on the graph of the tests after passes that rejected edges
C19_Witness ==
    /\ OnSmallGraph /\ kr.pc = "done"
    /\ kr.i > 4
    /\ Cardinality(EdgePairs(kr.vertices, kr.tree)) = 4

-----------------------------------------------------------------------------
(* Claims about what kruskal and dijkstra do to their input (checked under    *)
(* SpecCaller)                                                                *)

CallerWrote(c) == c.op \in {"graph.add_edge", "tree.add_edge"}

-----------------------------------------------------------------------------
(* Claims about graphs built from undirected edges between different         *)
(* vertices (checked under SpecSimple)                                        *)

\* C21: whatever add_vertex calls and undirected add_edge and remove_edge
\* calls between different vertices were made on the empty graph, failed ones
\* included, the matrix is symmetric and number_of_odd_nodes is even.
C21_SimpleGraphHasEvenOddNodes ==
    /\ Symmetric(vertices, matrix)
    /\ NumberOfOddNodes(matrix) % 2 = 0

\* an edge was written over with another weight in a graph of three vertices
\* of which two have an odd number of edges
C21_Witness ==
    /\ Len(vertices) = 3
    /\ last.op = "add_edge" /\ last.result = "ok" /\ last.w = 2
    /\ NumberOfOddNodes(matrix) = 2
    /\ \E i \in 1..3, j \in 1..3 : matrix[i][j] = 1

-----------------------------------------------------------------------------
(* Claims about the Euler readings (checked under SpecReadings)               *)

\* the vertices whose matrix row has an odd number of nonzero cells
OddRows(vs, m) ==
    {i \in 1..Len(vs) : Cardinality({j \in 1..Len(vs) : m[i][j] # 0}) % 2 = 1}

\* C22: on every graph number_of_odd_nodes is the number of vertices whose
\* matrix row has an odd number of nonzero cells, a self-loop being one cell;
\* is_eulerian is true exactly when that number is 0 and is_semi_eulerian
\* exactly when it is 2, so the two are never true together.
C22_EulerReadingsCountOddRows ==
    last.op = "readings" =>
        LET odd == Cardinality(OddRows(vertices, matrix))
        IN  /\ last.number_of_odd_nodes = odd
            /\ last.is_eulerian <=> (odd = 0)
            /\ last.is_semi_eulerian <=> (odd = 2)
            /\ ~(last.is_eulerian /\ last.is_semi_eulerian)

\* a semi-Eulerian reading on a graph of three vertices one of whose odd rows
\* holds a self-loop only
C22_Witness ==
    /\ last.op = "readings"
    /\ last.is_semi_eulerian
    /\ Len(vertices) = 3
    /\ \E i \in 1..3 : \A j \in 1..3 : matrix[i][j] # 0 <=> j = i

-----------------------------------------------------------------------------
(* Claim about total_weight (checked under SpecEdgeCalls)                     *)

\* the sum of the cells of m named by the set of index pairs S
RECURSIVE SumOfCells(_, _)
SumOfCells(m, S) ==
    IF S = {} THEN 0
    ELSE LET c == CHOOSE c \in S : TRUE
         IN  m[c[1]][c[2]] + SumOfCells(m, S \ {c})

\* what the edges read off the matrix contribute: twice the weight for two
\* different vertices joined by equal cells, the weight for a cell whose
\* opposite cell differs, the weight for a self-loop
EdgeContributions(vs, m) ==
    LET n == Len(vs)
        undirected == {c \in (1..n) \X (1..n) : c[1] < c[2] /\ m[c[1]][c[2]] = m[c[2]][c[1]]}
        directed == {c \in (1..n) \X (1..n) : c[1] # c[2] /\ m[c[1]][c[2]] # m[c[2]][c[1]]}
        loops == {c \in (1..n) \X (1..n) : c[1] = c[2]}
    IN  2 * SumOfCells(m, undirected) + SumOfCells(m, directed) + SumOfCells(m, loops)

\* C23: total_weight is the sum of every matrix cell. In whatever matrix edge
\* operations have left, an undirected edge of weight w between two different
\* vertices contributes 2w, a directed edge w and a self-loop w; a successful
\* add_edge or remove_edge changes total_weight by what it writes minus what
\* the written cells held, a self-loop being one cell also when it is added
\* undirected; a graph with no edges has total_weight 0.
C23_TotalWeightSumsEveryCell ==
    [][/\ TotalWeight(matrix') = EdgeContributions(vertices', matrix')
       /\ (\A i \in 1..Len(vertices'), j \in 1..Len(vertices') : matrix'[i][j] = 0)
            => TotalWeight(matrix') = 0
       /\ (SetEdgeDone(last') /\ last'.result = "ok") =>
            LET vi == IndexOf(vertices, last'.v)
                ui == IndexOf(vertices, last'.u)
                w  == IF last'.op = "remove_edge" THEN 0 ELSE last'.w
            IN  TotalWeight(matrix') - TotalWeight(matrix) =
                    IF vi = ui \/ last'.d
                    THEN w - matrix[vi][ui]
                    ELSE 2 * w - matrix[vi][ui] - matrix[ui][vi]
      ]_vars

\* a self-loop of weight 2 was added undirected to a graph holding an
\* undirected edge of weight 1: total_weight is 4
C23_Witness ==
    /\ last.op = "add_edge" /\ last.result = "ok"
    /\ last.v = last.u /\ ~last.d /\ last.w = 2
    /\ Len(vertices) = 2
    /\ matrix[1][2] = 1 /\ matrix[2][1] = 1
    /\ TotalWeight(matrix) = 4

-----------------------------------------------------------------------------
(* Claim about weight_of_path (checked under SpecPaths)                       *)

\* the cells a path walks over, in order
CellsAlong(vs, m, path) ==
    [k \in 1..(Len(path) - 1) |-> m[IndexOf(vs, path[k])][IndexOf(vs, path[k + 1])]]

\* C24: weight_of_path(path) fails with VertexDoesntExistError if any vertex
\* of path is not in the graph, wherever it stands in the path; otherwise it
\* fails with EdgeDoesntExistError if some consecutive pair (p, q) has
\* matrix[index(p)][index(q)] = 0; otherwise it returns the sum of those cells
\* over the consecutive pairs, 0 for a path of zero or one vertex. The graph
\* is unchanged in every case.
C24_WeightOfPathOutcome ==
    [][last'.op = "weight_of_path" =>
            LET path == last'.path
                out  == last'.outcome
            IN  /\ vertices' = vertices /\ matrix' = matrix
                /\ IF \E k \in 1..Len(path) : path[k] \notin Range(vertices)
                   THEN out.result = "VertexDoesntExistError"
                   ELSE LET cells == CellsAlong(vertices, matrix, path)
                        IN  IF \E k \in 1..Len(cells) : cells[k] = 0
                            THEN out.result = "EdgeDoesntExistError"
                            ELSE /\ out.result = "ok"
                                 /\ out.weight = SumSeq(cells)
                                 /\ Len(path) <= 1 => out.weight = 0
      ]_vars

\* a path whose first pair has no edge and whose last vertex is foreign
C24_Witness ==
    /\ last.op = "weight_of_path"
    /\ Len(last.path) = 3
    /\ last.path[1] \in Range(vertices) /\ last.path[2] \in Range(vertices)
    /\ matrix[IndexOf(vertices, last.path[1])][IndexOf(vertices, last.path[2])] = 0
    /\ last.path[3] \notin Range(vertices)
    /\ last.outcome.result = "VertexDoesntExistError"

-----------------------------------------------------------------------------
(* Claims about the searches on directed graphs (checked under SpecQueries)   *)

\* C25: is_connected terminates on every graph, its recursion no deeper than
\* the number of vertices allows: no reading of is_connected ends in a
\* RecursionError, neither on graphs with one-way edges nor on graphs where
\* two vertices are joined by opposite edges of different weights and a third
\* vertex cannot be reached.
C25_IsConnectedTerminates ==
    Queried => last.is_connected # "RecursionError"

\* C26: get_connected_vertices(v, avoid) returns a vertex w of avoid only when
\* v and w are joined in both directions by nonzero cells of different
\* weights; a w of avoid with matrix[v][w] # 0 and matrix[w][v] = 0 is not
\* returned.
C26_AvoidedNeedsTwoEdges ==
    ConnectedVerticesCalled =>
        \A k \in 1..Len(last.result) :
            LET vi == IndexOf(vertices, last.vertex)
                wi == IndexOf(vertices, last.result[k])
            IN  last.result[k] \in last.avoid =>
                    /\ matrix[vi][wi] # 0
                    /\ matrix[wi][vi] # 0
                    /\ matrix[wi][vi] # matrix[vi][wi]

-----------------------------------------------------------------------------
(* Claim about the order in which kruskal considers the edges of an           *)
(* undirected graph (checked under SpecKruskal)                               *)

KruskalStarted == kr.pc \in {"loop", "done"}

\* the place of the cell (from, to) in the row-major order of the matrix
CellRank(vs, e) == (IndexOf(vs, e[1]) - 1) * Len(vs) + IndexOf(vs, e[2])

\* the same nonzero weight w between A, B and C and nothing else
EqualTriangle(w) ==
    /\ vertices = <<"A", "B", "C">>
    /\ matrix = <<<<0, w, w>>, <<w, 0, w>>, <<w, w, 0>>>>

\* C27: kruskal is deterministic and breaks ties by row-major order: the list
\* it walks holds each edge of the input once, named by its first cell in
\* row-major order, in ascending weight, and among edges of equal weight the
\* one whose first cell comes earlier in row-major order stands first; the loop
\* has considered the first i - 1 of them. On A, B, C with undirected edges
\* A-B, A-C, B-C of one weight the result keeps A-B and A-C and drops B-C.
C27_KruskalBreaksTiesRowMajor ==
    KruskalStarted =>
        LET es == kr.edges
            n  == Len(vertices)
            upper == {c \in (1..n) \X (1..n) : c[1] <= c[2] /\ matrix[c[1]][c[2]] # 0}
        IN  /\ Len(es) = Cardinality(upper)
            /\ \A c \in upper : \E k \in 1..Len(es) :
                    es[k] = <<vertices[c[1]], vertices[c[2]], matrix[c[1]][c[2]], c[1] = c[2]>>
            /\ \A k \in 1..Len(es), l \in 1..Len(es) :
                    k < l => \/ es[k][3] < es[l][3]
                             \/ /\ es[k][3] = es[l][3]
                                /\ CellRank(vertices, es[k]) < CellRank(vertices, es[l])
            /\ kr.i \in 1..(Len(es) + 1)
            /\ \A w \in KruskalWeights :
                    (EqualTriangle(w) /\ kr.pc = "done") =>
                        kr.tree = <<<<0, w, w>>, <<w, 0, 0>>, <<w, 0, 0>>>>

\* kruskal returned on the triangle whose three edges all weigh 2
C27_Witness ==
    /\ kr.pc = "done"
    /\ EqualTriangle(2)
    /\ TotalWeight(kr.tree) = 8

-----------------------------------------------------------------------------
(* Claim about the first loop of dijkstra (checked under SpecDijkstra)        *)

Visited(dvs) == (1..Len(dvs)) \ Unvisited(dvs)

\* C28: in dijkstra's first loop the start vertex begins finalized at distance
\* 0 and nothing else is finalized; each pass finalizes exactly one vertex that
\* was not finalized, one whose working_distance after the pass's updates is
\* the smallest among them and, on a tie, the earliest in the graph's vertex
\* order; a final_distance that is set never changes; the loop ends after
\* exactly n - 1 passes with every vertex finalized, the unreachable ones at
\* infinite distance; the weights being positive, vertices are finalized in
\* non-decreasing order of final_distance.
C28_LabelSettingFinalizesNearestFirst ==
    [][/\ (dj.pc = "idle" /\ dj'.pc # "idle") =>
            LET dvs == dj'.dvs
            IN  /\ dj'.pc = "label"
                /\ Len(dvs) = Len(vertices)
                /\ dvs[1].vertex = dj'.start /\ dvs[1].visited
                /\ dvs[1].final = 0 /\ dvs[1].order = 1
                /\ Visited(dvs) = {1}
       /\ (dj.pc = "label" /\ Unvisited(dj.dvs) # {}) =>
            LET old  == dj.dvs
                new  == dj'.dvs
                done == Visited(new) \ Visited(old)
            IN  /\ dj'.pc = "label"
                /\ Len(new) = Len(old)
                /\ Cardinality(done) = 1
                /\ \A k \in Visited(old) : new[k] = old[k]
                /\ \A k \in done :
                     /\ new[k].final = new[k].working
                     /\ new[k].order = Cardinality(Visited(old)) + 1
                     /\ \A j \in Unvisited(old) :
                          \/ new[k].working < new[j].working
                          \/ /\ new[k].working = new[j].working
                             /\ IndexOf(vertices, new[k].vertex.name)
                                  <= IndexOf(vertices, new[j].vertex.name)
                     /\ \A j \in Visited(old) : old[j].final <= new[k].final
       /\ (dj.pc = "label" /\ Unvisited(dj.dvs) = {}) =>
            LET dvs == dj.dvs
                n   == Len(vertices)
                reached == ReachableFrom(matrix, {IndexOf(vertices, dj.start.name)})
            IN  /\ {dvs[k].order : k \in 1..Len(dvs)} = 1..n
                /\ Cardinality(Visited(dvs)) = n
                /\ \A k \in 1..Len(dvs) :
                     dvs[k].final = Inf <=> IndexOf(vertices, dvs[k].vertex.name) \notin reached
                /\ \A j \in 1..Len(dvs), k \in 1..Len(dvs) :
                     dvs[j].order < dvs[k].order => dvs[j].final <= dvs[k].final
      ]_vars

\* the first loop is over on a graph of three vertices of which the two other
\* than start were tied at a finite distance
C28_Witness ==
    /\ dj.pc = "trace"
    /\ Len(dj.dvs) = 3
    /\ dj.dvs[2].final = dj.dvs[3].final
    /\ dj.dvs[2].final < Inf
    /\ dj.dvs[2].order = 2

-----------------------------------------------------------------------------
(* Claims about kruskal on any graph (checked under SpecKruskalAny)           *)

\* C29: kruskal terminates on every input graph, directed, with opposite edges
\* of different weights, with self-loops, disconnected or empty: it raises
\* nothing and its loop index only grows up to the length of the edge list.
\* After every pass of its loop has_cycles is false on the partial result, and
\* a pass whose added edge made has_cycles true leaves exactly the matrix from
\* before the addition.
C29_KruskalTerminatesWithoutCycles ==
    [][/\ kr'.pc # "raised"
       /\ (kr.pc = "idle" /\ kr'.pc = "loop") => ~HasCycles(kr'.vertices, kr'.tree)
       /\ (kr.pc = "loop" /\ kr.i <= Len(kr.edges)) =>
            LET e == kr.edges[kr.i]
                added == SetEdge(kr.vertices, kr.tree, e[1], e[2], e[3], e[4])
            IN  /\ ~HasCycles(kr'.vertices, kr'.tree)
                /\ kr'.tree = IF HasCycles(kr.vertices, added) THEN kr.tree ELSE added
                /\ kr'.pc = "done" \/ (kr'.pc = "loop" /\ kr'.i = kr.i + 1)
      ]_vars

\* kruskal returned on a graph of three vertices with opposite edges of
\* different weights, the second of which it added and removed again
C29_Witness ==
    /\ kr.pc = "done"
    /\ Len(vertices) = 3
    /\ \E i \in 1..3, j \in 1..3 :
          /\ i # j
          /\ matrix[i][j] # 0 /\ matrix[j][i] # 0 /\ matrix[i][j] # matrix[j][i]
          /\ kr.tree[i][j] # 0 /\ kr.tree[j][i] = 0

\* C30: kruskal's result contains only edges of the input: every cell of the
\* result matrix is 0 or equal to the same cell of the input matrix; where the
\* input has matrix[i][j] = matrix[j][i] # 0 the result keeps both cells or
\* neither, so the result of a symmetric input is symmetric; and the result
\* never contains a self-loop.
C30_KruskalKeepsOnlyInputEdges ==
    kr.pc = "done" =>
        LET n == Len(vertices)
        IN  /\ kr.vertices = vertices
            /\ \A i \in 1..n, j \in 1..n :
                 /\ kr.tree[i][j] = 0 \/ kr.tree[i][j] = matrix[i][j]
                 /\ (matrix[i][j] # 0 /\ matrix[i][j] = matrix[j][i]) =>
                        (kr.tree[i][j] = 0 <=> kr.tree[j][i] = 0)
            /\ Symmetric(vertices, matrix) => Symmetric(kr.vertices, kr.tree)
            /\ ~HasSelfLoop(kr.vertices, kr.tree)

\* kruskal returned on a graph of three vertices with an undirected edge, which
\* it kept, and a one-way edge
C30_Witness ==
    /\ kr.pc = "done"
    /\ Len(vertices) = 3
    /\ \E i \in 1..Len(vertices), j \in 1..Len(vertices) :
          /\ i # j /\ matrix[i][j] # 0 /\ matrix[i][j] = matrix[j][i]
          /\ kr.tree[i][j] # 0 /\ kr.tree[j][i] # 0
    /\ \E i \in 1..Len(vertices), j \in 1..Len(vertices) :
          matrix[i][j] # 0 /\ matrix[j][i] = 0

====
